---- MODULE Spec2Model ----
(***************************************************************************)
(* Model of internal/git.go of srpmproc: GitMode.RetrieveSource (import    *)
(* reference resolution), GitMode.WriteSource (tiered blob acquisition),   *)
(* GitMode.PostProcess (cleanup) and GitMode.ImportName.                   *)
(*                                                                         *)
(* Strings are sequences of tokens.  Fixed path segments ("refs/",         *)
(* "tags/", "heads", "imports/", a digest, a file name, a name segment     *)
(* such as "pkgname") are one token each, every other token is one         *)
(* character.                                                              *)
(***************************************************************************)
EXTENDS Integers, Sequences, FiniteSets, TLC

\* ---------------------------------------------------------------- bounds
MaxWhen == 2
MaxTags == 2
MaxRefs == 2
MaxLines == 2
MaxTail == 5

\* ------------------------------------------------------- string helpers
Nil == "nil"

\* strings.HasPrefix
HasPrefix(s, p) ==
    /\ Len(p) <= Len(s)
    /\ SubSeq(s, 1, Len(p)) = p

\* strings.TrimPrefix
TrimPrefix(s, p) ==
    IF HasPrefix(s, p) THEN SubSeq(s, Len(p) + 1, Len(s)) ELSE s

SetMax(S) == CHOOSE x \in S : \A y \in S : y <= x
SetMin(S) == CHOOSE x \in S : \A y \in S : x <= y

Digit(d) ==
    CASE d = 0 -> "0" [] d = 1 -> "1" [] d = 2 -> "2" [] d = 3 -> "3"
      [] d = 4 -> "4" [] d = 5 -> "5" [] d = 6 -> "6" [] d = 7 -> "7"
      [] d = 8 -> "8" [] d = 9 -> "9"

\* fmt.Sprintf("%d", n) for n >= 0
RECURSIVE Itoa(_)
Itoa(n) == IF n < 10 THEN <<Digit(n)>> ELSE Itoa(n \div 10) \o <<Digit(n % 10)>>

RefsTags == <<"refs/", "tags/">>
RefsHeadsNoSlash == <<"refs/", "heads">>
RefsHeads == RefsHeadsNoSlash \o <<"/">>
Imports == <<"imports/">>
RegexSep == "."
RegexDash == "-"

\* tagImportRegex: refs/tags/(imports/(.*)<sep>(.*)-(.*)), unanchored,
\* leftmost match, greedy groups.  The positions at which a match can start.
RegexStarts(s) ==
    { i \in 1..Len(s) :
        /\ HasPrefix(SubSeq(s, i, Len(s)), RefsTags \o Imports)
        /\ \E j \in (i + 3)..Len(s) : \E k \in (j + 1)..Len(s) :
              s[j] = RegexSep /\ s[k] = RegexDash }

\* tagImportRegex.MatchString
MatchString(s) == RegexStarts(s) # {}

\* tagImportRegex.FindStringSubmatch: <<m0, m1, m2, m3, m4>>, or the empty
\* (nil) slice
FindStringSubmatch(s) ==
    IF ~MatchString(s) THEN <<>>
    ELSE LET i == SetMin(RegexStarts(s))
             p == i + 3
             j == SetMax({ x \in p..Len(s) :
                      s[x] = RegexSep /\ \E k \in (x + 1)..Len(s) : s[k] = RegexDash })
             k == SetMax({ x \in (j + 1)..Len(s) : s[x] = RegexDash })
         IN  << SubSeq(s, i, Len(s)),
                SubSeq(s, i + 2, Len(s)),
                SubSeq(s, p, j - 1),
                SubSeq(s, j + 1, k - 1),
                SubSeq(s, k + 1, Len(s)) >>

\* match[n] of a Go submatch slice (0-based)
Group(match, n) == match[n + 1]

\* ------------------------------------------------------------- variables
VARIABLES
    \* run configuration (data.ProcessData)
    ImportBranchPrefix, Version, NoStorageDownload,
    \* RetrieveSource
    rpc,            \* position in RetrieveSource
    tagsLeft,       \* annotated tag objects not yet visited by ForEach
    tagsAll,        \* the tag objects of the repository
    listAll,        \* the refs remote.List returns
    listLeft,       \* refs of the list not yet visited
    latestTags,     \* map component -> remoteTarget
    branches,       \* remoteTargetSlice after sort.Sort
    Branches,       \* ModeData.Branches
    \* WriteSource / PostProcess
    wpc,            \* position in WriteSource / PostProcess
    fatal,          \* the log.Fatal message the run died with, or Nil
    TagBranch,      \* ModeData.TagBranch
    branchName,     \* local branchName of WriteSource
    commitTree,     \* the tree of the commit TagBranch points at
    metadata,       \* lines of the metadata file in that commit, or Nil
    idx,            \* index of the next line of fileContent
    tree,           \* Worktree.Filesystem: map path -> content
    BlobCache,      \* ModeData.BlobCache: map hash -> bytes
    SourcesToIgnore,\* ModeData.SourcesToIgnore
    calls,          \* BlobStorage.Read calls and HTTP requests made so far
    postIdx,        \* index of the next source of PostProcess
    \* ImportName
    ipc,            \* position in ImportName
    importName      \* the string ImportName returned

pdVars == << ImportBranchPrefix, Version, NoStorageDownload >>

rVars == << rpc, tagsLeft, tagsAll, listAll, listLeft, latestTags, branches, Branches >>

wVars == << wpc, fatal, TagBranch, branchName, commitTree, metadata, idx, tree,
            BlobCache, SourcesToIgnore, calls, postIdx >>

iVars == << ipc, importName >>

vars == << pdVars, rVars, wVars, iVars >>

EmptyMap == [x \in {} |-> Nil]

MapPut(m, k, v) == [x \in DOMAIN m \cup {k} |-> IF x = k THEN v ELSE m[x]]

\* a removal that leaves the entry in place
MapRemoveKeeps(m, k) == m

MapRemove(m, k) == [x \in DOMAIN m \ {k} |-> m[x]]

\* ------------------------------------------------- RetrieveSource inputs
Versions == {8, 9}

\* names of annotated tag objects (tag.Name, without refs/tags/)
TagNames ==
    { Imports \o <<"c", "8", ".", "p", "-", "1">>,
      Imports \o <<"c", "8", ".", "p", "-", "2">>,
      Imports \o <<"c", "8", "s", ".", "p", "-", "1">>,
      Imports \o <<"c", "9", ".", "p", "-", "1">>,
      Imports \o <<"c", "8", "p", "1">> }

\* names of remote refs
RefNames ==
    { RefsHeads \o <<"c", "8">>,
      RefsTags \o Imports \o <<"c", "8", ".", "p", "-", "1">>,
      RefsTags \o Imports \o <<"c", "8", ".", "p", "-", "2">>,
      RefsTags \o Imports \o <<"c", "8", "s", ".", "p", "-", "1">> }

Times == 1..MaxWhen

\* the sets of at most MaxTags annotated tag objects with distinct names
TagSets ==
    UNION { { { [Name |-> n, When |-> f[n]] : n \in N } : f \in [N -> Times] } :
            N \in { M \in SUBSET TagNames : Cardinality(M) <= MaxTags } }

\* a listed ref: zero hash, or a hash whose commit object cannot be read, or
\* a commit with a committer time
RefAttrs ==
    { [Zero |-> TRUE, Readable |-> FALSE, When |-> 1],
      [Zero |-> FALSE, Readable |-> FALSE, When |-> 1] }
    \cup { [Zero |-> FALSE, Readable |-> TRUE, When |-> t] : t \in Times }

\* the lists of at most MaxRefs refs with distinct names
RefSets ==
    UNION { { { [Name |-> n, Zero |-> f[n].Zero, Readable |-> f[n].Readable,
                 When |-> f[n].When] : n \in N } : f \in [N -> RefAttrs] } :
            N \in { M \in SUBSET RefNames : Cardinality(M) <= MaxRefs } }

\* ------------------------------------------------------- RetrieveSource
\* time.Time.After / time.Time.Before
After(t, u) == t > u
Before(t, u) == t < u

\* Less with the comparison reversed
LessReversed(a, b) == After(a.when, b.when)

\* remoteTargetSlice.Less, on two elements
Less(a, b) == Before(a.when, b.when)

\* fmt.Sprintf("imports/%s%d", pd.ImportBranchPrefix, pd.Version)
ImportPattern(prefix, version) == Imports \o prefix \o Itoa(version)

\* tagAdd with the timestamp test reversed (keeps the older tag)
tagAddKeepsOlder(lt, tag, prefix, version) ==
    IF HasPrefix(tag.Name, ImportPattern(prefix, version))
    THEN LET refSpec == RefsTags \o tag.Name IN
         IF MatchString(refSpec)
         THEN LET match == FindStringSubmatch(refSpec)
                  key == Group(match, 2)
              IN  IF key \in DOMAIN lt /\ Before(lt[key].when, tag.When)
                  THEN lt
                  ELSE MapPut(lt, key, [remote |-> refSpec, when |-> tag.When])
         ELSE lt
    ELSE lt

\* tagAdd keeping the stored entry on equal timestamps as well
tagAddKeepsOnTie(lt, tag, prefix, version) ==
    IF HasPrefix(tag.Name, ImportPattern(prefix, version))
    THEN LET refSpec == RefsTags \o tag.Name IN
         IF MatchString(refSpec)
         THEN LET match == FindStringSubmatch(refSpec)
                  key == Group(match, 2)
              IN  IF key \in DOMAIN lt /\ ~Before(lt[key].when, tag.When)
                  THEN lt
                  ELSE MapPut(lt, key, [remote |-> refSpec, when |-> tag.When])
         ELSE lt
    ELSE lt

\* the tagAdd closure: the new latestTags
tagAdd(lt, tag, prefix, version) ==
    IF HasPrefix(tag.Name, ImportPattern(prefix, version))
    THEN LET refSpec == RefsTags \o tag.Name IN
         IF MatchString(refSpec)
         THEN LET match == FindStringSubmatch(refSpec)
                  key == Group(match, 2)
              IN  IF key \in DOMAIN lt /\ After(lt[key].when, tag.When)
                  THEN lt
                  ELSE MapPut(lt, key, [remote |-> refSpec, when |-> tag.When])
         ELSE lt
    ELSE lt

\* RefAsTag trimming the branch prefix instead of the tag prefix
RefAsTagTrimsHeads(ref) ==
    [Name |-> TrimPrefix(ref.Name, RefsHeads), When |-> ref.When]

\* the object.Tag the fallback builds from a listed ref and its commit
RefAsTag(ref) ==
    [Name |-> TrimPrefix(ref.Name, RefsTags), When |-> ref.When]

\* ImportName has not been called
IdleImportName ==
    /\ ipc = "idle"
    /\ importName = <<>>

\* WriteSource has not been entered
IdleWrite ==
    /\ wpc = "idle"
    /\ fatal = Nil
    /\ TagBranch = <<>>
    /\ branchName = <<>>
    /\ commitTree = EmptyMap
    /\ metadata = [present |-> FALSE, lines |-> <<>>]
    /\ idx = 1
    /\ tree = EmptyMap
    /\ BlobCache = EmptyMap
    /\ SourcesToIgnore = <<>>
    /\ calls = <<>>
    /\ postIdx = 1

InitResolve ==
    /\ ImportBranchPrefix = <<"c">>
    /\ Version \in Versions
    /\ tagsAll \in TagSets
    /\ listAll = {}
    /\ tagsLeft = tagsAll
    /\ listLeft = {}
    /\ latestTags = EmptyMap
    /\ branches = <<>>
    /\ Branches = <<>>
    /\ rpc = "tags"
    /\ NoStorageDownload = FALSE
    /\ IdleWrite
    /\ IdleImportName

\* one callback of tagIter.ForEach(tagAdd)
TagIterStep ==
    /\ rpc = "tags"
    /\ \E tag \in tagsLeft :
         /\ latestTags' = tagAdd(latestTags, tag, ImportBranchPrefix, Version)
         /\ tagsLeft' = tagsLeft \ {tag}
    /\ UNCHANGED << pdVars, wVars, iVars, rpc, tagsAll, listAll, listLeft,
                    branches, Branches >>

\* end of the tag scan: len(latestTags) == 0 selects the fallback, which
\* asks the remote for its refs (remote.List)
TagIterDone ==
    /\ rpc = "tags"
    /\ tagsLeft = {}
    /\ IF DOMAIN latestTags = {}
       THEN /\ rpc' = "list"
            /\ \E list \in RefSets : listAll' = list /\ listLeft' = list
       ELSE /\ rpc' = "collect"
            /\ UNCHANGED << listAll, listLeft >>
    /\ UNCHANGED << pdVars, wVars, iVars, tagsLeft, tagsAll,
                    latestTags, branches, Branches >>

\* an unreadable commit object ends the resolution
ListNextFatalOnUnreadable(ref) ==
    IF ~ref.Zero /\ ~ref.Readable THEN "fatal" ELSE "list"

\* position after one listed ref: every branch of the loop body continues
ListNext(ref) == "list"

\* one iteration of the loop over remote.List
ListStep ==
    /\ rpc = "list"
    /\ \E ref \in listLeft :
         /\ listLeft' = listLeft \ {ref}
         /\ rpc' = ListNext(ref)
         /\ IF ref.Zero
            THEN latestTags' = latestTags
            ELSE IF ~ref.Readable
            THEN latestTags' = latestTags
            ELSE latestTags' =
                   tagAdd(latestTags, RefAsTag(ref), ImportBranchPrefix, Version)
    /\ UNCHANGED << pdVars, wVars, iVars, tagsLeft, tagsAll, listAll,
                    branches, Branches >>

ListDone ==
    /\ rpc = "list"
    /\ listLeft = {}
    /\ rpc' = "collect"
    /\ UNCHANGED << pdVars, wVars, iVars, tagsLeft, tagsAll, listAll, listLeft,
                    latestTags, branches, Branches >>

\* the sequences sort.Sort can leave for the values of m: every arrangement
\* in which no later element is Less than an earlier one
SortedArrangements(m) ==
    LET n == Cardinality(DOMAIN m)
        vals == { m[k] : k \in DOMAIN m }
    IN  { s \in [1..n -> vals] :
            /\ \A k \in DOMAIN m : \E i \in 1..n : s[i] = m[k]
            /\ \A v \in vals :
                 Cardinality({ i \in 1..n : s[i] = v }) =
                 Cardinality({ k \in DOMAIN m : m[k] = v })
            /\ \A i, j \in 1..n : i < j => ~Less(s[j], s[i]) }

\* collect the map values, sort.Sort, and return ModeData
CollectSortReturn ==
    /\ rpc = "collect"
    /\ \E s \in SortedArrangements(latestTags) :
         /\ branches' = s
         /\ Branches' = [i \in DOMAIN s |-> s[i].remote]
    /\ rpc' = "done"
    /\ UNCHANGED << pdVars, wVars, iVars, tagsLeft, tagsAll, listAll, listLeft,
                    latestTags >>

NextResolve ==
    \/ TagIterStep
    \/ TagIterDone
    \/ ListStep
    \/ ListDone
    \/ CollectSortReturn

SpecResolve == InitResolve /\ [][NextResolve]_vars

\* ------------------------------------------- properties of RetrieveSource
\* a tag name that matches the import prefix+version pattern of the run
MatchesImport(name) ==
    /\ HasPrefix(name, ImportPattern(ImportBranchPrefix, Version))
    /\ MatchString(RefsTags \o name)

\* the distinguishing component of a reference refs/tags/<name>
ComponentOf(refSpec) == Group(FindStringSubmatch(refSpec), 2)

MatchingTags == { t \in tagsAll : MatchesImport(t.Name) }

\* the candidates of the fallback: listed refs with a non-zero hash and a
\* readable commit whose name without refs/tags/ matches the pattern
MatchingRefs ==
    { r \in listAll : ~r.Zero /\ r.Readable /\ MatchesImport(TrimPrefix(r.Name, RefsTags)) }

\* the candidates of the run as (reference, timestamp) pairs
Candidates ==
    IF MatchingTags # {}
    THEN { [remote |-> RefsTags \o t.Name, when |-> t.When] : t \in MatchingTags }
    ELSE { [remote |-> RefsTags \o TrimPrefix(r.Name, RefsTags), when |-> r.When] :
           r \in MatchingRefs }

CandidatesOf(c) == { x \in Candidates : ComponentOf(x.remote) = c }

\* positions of the result whose reference has component c
ResultFor(c) ==
    { i \in DOMAIN Branches : MatchString(Branches[i]) /\ ComponentOf(Branches[i]) = c }

\* C5: the result holds, for each distinguishing component of the matching
\* annotated tags, exactly one reference, and it is a tag of that component
\* with the maximum tagger timestamp, whatever the iteration order was
C5_LatestTagPerComponent ==
    (rpc = "done" /\ MatchingTags # {}) =>
        \A t \in MatchingTags :
            LET c == ComponentOf(RefsTags \o t.Name) IN
            /\ Cardinality(ResultFor(c)) = 1
            /\ \A i \in ResultFor(c) :
                 \E x \in CandidatesOf(c) :
                    /\ Branches[i] = x.remote
                    /\ branches[i] = x
                    /\ \A y \in CandidatesOf(c) : y.when <= x.when

\* two tags of one component with t1 < t2 resolved to the t2 reference only
C5_Witness ==
    /\ rpc = "done"
    /\ \E t1, t2 \in MatchingTags :
         /\ ComponentOf(RefsTags \o t1.Name) = ComponentOf(RefsTags \o t2.Name)
         /\ t1.When < t2.When
         /\ Branches = << RefsTags \o t2.Name >>

NoTagMatched == MatchingTags = {}

HeadRefs == { r \in listAll : HasPrefix(r.Name, RefsHeads) /\ ~r.Zero /\ r.Readable }

C10_SortedOnePerComponent ==
    rpc = "done" =>
        /\ Len(branches) = Len(Branches)
        /\ \A i \in DOMAIN Branches :
              /\ branches[i] \in Candidates
              /\ Branches[i] = branches[i].remote
        /\ \A i, j \in DOMAIN Branches : i < j => branches[i].when <= branches[j].when
        /\ \A x \in Candidates : Cardinality(ResultFor(ComponentOf(x.remote))) = 1
        /\ Len(Branches) = Cardinality({ ComponentOf(x.remote) : x \in Candidates })

\* two components, returned oldest first
C10_Witness ==
    /\ rpc = "done"
    /\ Len(Branches) = 2
    /\ branches[1].when < branches[2].when
    /\ ComponentOf(Branches[1]) # ComponentOf(Branches[2])

\* the step visits tag t of the annotated tag scan
Visits(t) == rpc = "tags" /\ t \in tagsLeft /\ tagsLeft' = tagsLeft \ {t}

\* C11 as stated: a visited tag whose component has an entry that is not
\* earlier (later or equal) leaves the entry as it is; on equal timestamps
\* the tag visited first stays
C11_KeepsExistingOnTie ==
    [][ \A t \in tagsLeft :
          (Visits(t) /\ MatchesImport(t.Name)
             /\ ComponentOf(RefsTags \o t.Name) \in DOMAIN latestTags
             /\ latestTags[ComponentOf(RefsTags \o t.Name)].when >= t.When)
          => latestTags' = latestTags ]_vars

\* C11 amended: a visited tag whose component has an entry leaves the entry
\* as it is only when the entry is strictly later; when the visited tag is
\* later or has the same timestamp it replaces the entry, so of two tags
\* with identical timestamps the one visited last stays
C11_ReplacesUnlessStrictlyLater ==
    [][ \A t \in tagsLeft :
          (Visits(t) /\ MatchesImport(t.Name)
             /\ ComponentOf(RefsTags \o t.Name) \in DOMAIN latestTags)
          => LET c == ComponentOf(RefsTags \o t.Name) IN
             /\ DOMAIN latestTags' = DOMAIN latestTags
             /\ \A k \in DOMAIN latestTags \ {c} : latestTags'[k] = latestTags[k]
             /\ latestTags'[c] =
                  IF latestTags[c].when > t.When
                  THEN latestTags[c]
                  ELSE [remote |-> RefsTags \o t.Name, when |-> t.When] ]_vars

\* two tags of one component with the same timestamp have both been visited
\* and the component holds one of them
C11_Witness ==
    /\ rpc \in {"tags", "collect"}
    /\ \E t1, t2 \in MatchingTags \ tagsLeft :
         /\ t1 # t2
         /\ ComponentOf(RefsTags \o t1.Name) = ComponentOf(RefsTags \o t2.Name)
         /\ t1.When = t2.When
         /\ latestTags[ComponentOf(RefsTags \o t1.Name)]
              = [remote |-> RefsTags \o t2.Name, when |-> t2.When]

\* the listed refs with a non-zero hash whose commit cannot be read
UnreadableRefs == { r \in listAll : ~r.Zero /\ ~r.Readable }

\* C14: a listed ref whose commit object cannot be loaded is skipped on its
\* own: the loop goes on with the map unchanged, and the returned list still
\* holds a reference for every component of the readable candidates
C14_UnreadableRefSkipped ==
    /\ [][ \A r \in listLeft :
             (rpc = "list" /\ listLeft' = listLeft \ {r} /\ ~r.Zero /\ ~r.Readable)
             => (rpc' = "list" /\ latestTags' = latestTags) ]_vars
    /\ [](rpc \in {"idle", "tags", "list", "collect", "done"})
    /\ []((rpc = "done" /\ NoTagMatched /\ UnreadableRefs # {}) =>
             \A r \in MatchingRefs :
                \E i \in DOMAIN Branches :
                   ComponentOf(Branches[i]) = ComponentOf(r.Name))

\* the fallback met an unreadable import tag ref and still returned the
\* readable one
C14_Witness ==
    /\ rpc = "done"
    /\ NoTagMatched
    /\ \E u \in UnreadableRefs : MatchesImport(TrimPrefix(u.Name, RefsTags))
    /\ \E r \in MatchingRefs : Branches = << r.Name >>

\* ----------------------------------------------------- WriteSource inputs
Whitespace == {" ", "\t"}

\* strings.TrimSpace
TrimSpace(s) ==
    LET keep == { i \in 1..Len(s) : s[i] \notin Whitespace }
    IN  IF keep = {} THEN <<>> ELSE SubSeq(s, SetMin(keep), SetMax(keep))

\* strings.SplitN(s, " ", 2)
SplitN2(s) ==
    LET at == { i \in 1..Len(s) : s[i] = " " }
    IN  IF at = {} THEN << s >>
        ELSE << SubSeq(s, 1, SetMin(at) - 1), SubSeq(s, SetMin(at) + 1, Len(s)) >>

Bytes == {"b1", "b2"}
HttpError == "error"
Empty == "empty"

\* the hash kind the shape of a declared hash selects, or Nil
HashKind(hash) ==
    IF Len(hash) # 1 THEN Nil
    ELSE CASE hash[1] = "d1" -> "sha256"
           [] hash[1] = "d2" -> "sha1"
           [] OTHER -> Nil

\* the digest of body under a hash kind
Digest(kind, body) ==
    CASE kind = "sha256" /\ body = "b1" -> << "d1" >>
      [] kind = "sha1" /\ body = "b2" -> << "d2" >>
      [] OTHER -> << "dx" >>

\* CompareHash(body, hash): the hash kind that verified body, or Nil
CompareHash(body, hash) ==
    LET kind == HashKind(hash)
    IN  IF kind = Nil THEN Nil
        ELSE IF Digest(kind, body) = hash THEN kind ELSE Nil

HashTokens == {"d1", "d2"}
PathTokens == {"pa", "pb"}

\* the lines a metadata file is made of
LineUniverse ==
    { << h, " ", q >> : h \in HashTokens, q \in PathTokens }
    \cup { <<>>, << "d1", "\t", "pa" >>, << "d1", " ", " ", "pb" >> }

\* fileContent: strings.Split(file, "\n")
FileContents == UNION { [1..n -> LineUniverse] : n \in 0..MaxLines }

MetadataFiles ==
    { [present |-> FALSE, lines |-> <<>>] }
    \cup { [present |-> TRUE, lines |-> l] : l \in FileContents }

MetadataPath == << ".", "pkg", ".metadata" >>
SpecPath == << "pkg.spec" >>

\* the files of the checked-out commit, the metadata file apart
CommitTrees ==
    { [x \in {SpecPath} |-> "old"],
      [x \in {SpecPath, << "pa" >>} |-> "old"] }

TagBranches ==
    { RefsHeads \o << "c", "8" >>,
      RefsTags \o Imports \o << "c", "8", ".", "p", "-", "1" >>,
      << "v", "1" >> }

\* the caches earlier WriteSource calls of the run can have left
VerifiedCaches ==
    UNION { { m \in [H -> Bytes] : \A h \in H : CompareHash(m[h], h) # Nil } :
            H \in SUBSET { << t >> : t \in HashTokens } }

\* RetrieveSource is not running
IdleResolve ==
    /\ rpc = "idle"
    /\ tagsAll = {}
    /\ tagsLeft = {}
    /\ listAll = {}
    /\ listLeft = {}
    /\ latestTags = EmptyMap
    /\ branches = <<>>
    /\ Branches = <<>>

\* ---------------------------------------------------------- WriteSource
InitWrite ==
    /\ ImportBranchPrefix = << "c" >>
    /\ Version = 8
    /\ NoStorageDownload \in BOOLEAN
    /\ IdleResolve
    /\ IdleImportName
    /\ wpc = "start"
    /\ fatal = Nil
    /\ TagBranch \in TagBranches
    /\ branchName = <<>>
    /\ commitTree \in CommitTrees
    /\ metadata \in MetadataFiles
    /\ idx = 1
    /\ tree = EmptyMap
    /\ BlobCache \in VerifiedCaches
    /\ SourcesToIgnore = <<>>
    /\ calls = <<>>
    /\ postIdx = 1

\* a message logged without ending the run
FatalLogsOnly(msg) == wpc' = wpc /\ fatal' = msg

\* log.Fatal / log.Fatalf
Fatal(msg) == wpc' = "fatal" /\ fatal' = msg

\* the tree Worktree.Checkout leaves
CheckedOut ==
    IF metadata.present THEN MapPut(commitTree, MetadataPath, "meta") ELSE commitTree

\* position after the line at index i of n lines
AfterLine(i, n) == IF i >= n THEN "returned" ELSE "loop"

InfraFailures ==
    { Nil, "could not get upstream remote", "could not fetch upstream",
      "could not checkout source from git", "could not add Worktree",
      "could not read metadata file" }

\* opening the metadata file succeeds whether or not it exists
OpenOkAlways(md) == TRUE

\* Worktree.Filesystem.Open of the metadata file returns no error
OpenOk(md) == md.present

\* WriteSource up to the loop over the metadata lines
WriteSourceBegin ==
    /\ wpc = "start"
    /\ \E failure \in InfraFailures :
         LET isHead == HasPrefix(TagBranch, RefsHeadsNoSlash)
             match == FindStringSubmatch(TagBranch)
         IN  IF failure = "could not get upstream remote"
             THEN Fatal(failure) /\ UNCHANGED << branchName, tree >>
             ELSE IF ~isHead /\ Len(match) < 3
             THEN wpc' = "panic" /\ UNCHANGED << fatal, branchName, tree >>
             ELSE /\ branchName' = IF isHead THEN TrimPrefix(TagBranch, RefsHeads)
                                   ELSE Group(match, 2)
                  /\ IF failure \in { "could not fetch upstream",
                                      "could not checkout source from git" }
                     THEN Fatal(failure) /\ UNCHANGED tree
                     ELSE /\ tree' = CheckedOut
                          /\ IF failure = "could not add Worktree"
                             THEN Fatal(failure)
                             ELSE IF ~OpenOk(metadata)
                             THEN wpc' = "returned" /\ UNCHANGED fatal
                             ELSE IF failure = "could not read metadata file"
                             THEN Fatal(failure)
                             ELSE /\ wpc' = AfterLine(0, Len(metadata.lines))
                                  /\ UNCHANGED fatal
    /\ UNCHANGED << pdVars, rVars, iVars, TagBranch, commitTree, metadata, idx, BlobCache,
                    SourcesToIgnore, calls, postIdx >>

\* the cache test that never finds an entry
CacheHitNever(cache, hash) == FALSE

\* md.BlobCache[hash] != nil
CacheHit(cache, hash) == hash \in DOMAIN cache /\ cache[hash] # Nil

\* the store test with the flag inverted
UseStoreFlagInverted(fromBlobStorage, noDownload) == fromBlobStorage # Nil /\ noDownload

\* fromBlobStorage != nil && !pd.NoStorageDownload
UseStore(fromBlobStorage, noDownload) == fromBlobStorage # Nil /\ ~noDownload

\* the body selection that takes the store's bytes whenever it returned some
FetchedBodyIgnoresFlag(fromBlobStorage, noDownload, httpBody) ==
    IF fromBlobStorage # Nil THEN fromBlobStorage ELSE httpBody

\* body on a cache miss: the store's bytes, or the HTTP response body
FetchedBody(fromBlobStorage, noDownload, httpBody) ==
    IF UseStore(fromBlobStorage, noDownload) THEN fromBlobStorage ELSE httpBody

\* the cache insert left out
CacheStoreSkipped(cache, hash, body) == cache

\* md.BlobCache[hash] = body
CacheStore(cache, hash, body) == MapPut(cache, hash, body)

\* the record with a fixed hash function
IgnoredSourceSha256(path, hasher) == [Name |-> path, HashFunction |-> "sha256"]

\* &data.IgnoredSource{Name: path, HashFunction: hasher}
IgnoredSource(path, hasher) == [Name |-> path, HashFunction |-> hasher]

Call(tier, hash, resp) ==
    [tier |-> tier, hash |-> hash, line |-> idx, resp |-> resp, branch |-> branchName]

\* one iteration of the loop over fileContent
ProcessLine ==
    /\ wpc = "loop"
    /\ \E storeResp \in Bytes \cup {Nil}, httpResp \in Bytes \cup {HttpError},
          createOk \in BOOLEAN, writeOk \in BOOLEAN :
         LET line == metadata.lines[idx]
             next == AfterLine(idx, Len(metadata.lines))
         IN
         IF TrimSpace(line) = <<>>
         THEN /\ wpc' = next
              /\ idx' = idx + 1
              /\ UNCHANGED << fatal, tree, BlobCache, SourcesToIgnore, calls >>
         ELSE
         LET lineInfo == SplitN2(line) IN
         IF Len(lineInfo) < 2
         THEN /\ wpc' = "panic"
              /\ UNCHANGED << fatal, idx, tree, BlobCache, SourcesToIgnore, calls >>
         ELSE
         LET hash == TrimSpace(lineInfo[1])
             path == TrimSpace(lineInfo[2])
             hit == CacheHit(BlobCache, hash)
             useStore == ~hit /\ UseStore(storeResp, NoStorageDownload)
             useHttp == ~hit /\ ~useStore
             body == IF hit THEN BlobCache[hash]
                     ELSE FetchedBody(storeResp, NoStorageDownload, httpResp)
             hasher == CompareHash(body, hash)
         IN
         /\ calls' = IF hit THEN calls
                     ELSE IF useStore THEN Append(calls, Call("store", hash, storeResp))
                     ELSE calls \o << Call("store", hash, storeResp),
                                      Call("http", hash, httpResp) >>
         /\ IF useHttp /\ httpResp = HttpError
            THEN /\ Fatal("could not download dist-git file")
                 /\ UNCHANGED << idx, tree, BlobCache, SourcesToIgnore >>
            ELSE
            /\ BlobCache' = IF hit THEN BlobCache ELSE CacheStore(BlobCache, hash, body)
            /\ IF ~createOk
               THEN /\ Fatal("could not open file pointer")
                    /\ UNCHANGED << idx, tree, SourcesToIgnore >>
               ELSE IF hasher = Nil
               THEN /\ Fatal("checksum in metadata does not match dist-git file")
                    /\ tree' = MapPut(tree, path, Empty)
                    /\ UNCHANGED << idx, SourcesToIgnore >>
               ELSE
               /\ SourcesToIgnore' =
                    Append(SourcesToIgnore, IgnoredSource(path, hasher))
               /\ IF ~writeOk
                  THEN /\ Fatal("could not copy dist-git file to in-tree")
                       /\ tree' = MapPut(tree, path, Empty)
                       /\ UNCHANGED idx
                  ELSE /\ tree' = MapPut(tree, path, body)
                       /\ idx' = idx + 1
                       /\ wpc' = next
                       /\ UNCHANGED fatal
    /\ UNCHANGED << pdVars, rVars, iVars, TagBranch, branchName, commitTree, metadata, postIdx >>

\* ---------------------------------------------------------- PostProcess
\* Stat reports every path as present
StatOkAlways(fs, name) == TRUE

\* Worktree.Filesystem.Stat(name) returns no error
StatOk(fs, name) == name \in DOMAIN fs

\* one iteration of the loop over md.SourcesToIgnore
PostProcessStep ==
    /\ wpc \in {"returned", "post"}
    /\ postIdx <= Len(SourcesToIgnore)
    /\ LET source == SourcesToIgnore[postIdx] IN
       IF StatOk(tree, source.Name)
       THEN \E removeOk \in BOOLEAN :
              IF removeOk
              THEN /\ tree' = MapRemove(tree, source.Name)
                   /\ wpc' = "post"
                   /\ postIdx' = postIdx + 1
                   /\ UNCHANGED fatal
              ELSE /\ Fatal("could not remove dist-git file")
                   /\ UNCHANGED << tree, postIdx >>
       ELSE /\ wpc' = "post"
            /\ postIdx' = postIdx + 1
            /\ UNCHANGED << fatal, tree >>
    /\ UNCHANGED << pdVars, rVars, iVars, TagBranch, branchName, commitTree, metadata, idx,
                    BlobCache, SourcesToIgnore, calls >>

\* the Worktree.Add(".") that ends PostProcess
PostProcessAdd ==
    /\ wpc \in {"returned", "post"}
    /\ postIdx > Len(SourcesToIgnore)
    /\ \E addOk \in BOOLEAN :
         IF addOk
         THEN wpc' = "postdone" /\ UNCHANGED fatal
         ELSE Fatal("could not add git sources")
    /\ UNCHANGED << pdVars, rVars, iVars, TagBranch, branchName, commitTree, metadata, idx,
                    tree, BlobCache, SourcesToIgnore, calls, postIdx >>

NextWrite ==
    \/ WriteSourceBegin
    \/ ProcessLine
    \/ PostProcessStep
    \/ PostProcessAdd

SpecWrite == InitWrite /\ [][NextWrite]_vars

\* ---------------------------- properties of WriteSource and PostProcess
ChecksumMismatch == "checksum in metadata does not match dist-git file"

\* the manifest entry of line i of the metadata file
EntryHash(i) == TrimSpace(SplitN2(metadata.lines[i])[1])
EntryPath(i) == TrimSpace(SplitN2(metadata.lines[i])[2])

\* the lines that are manifest entries
EntryLines ==
    { i \in 1..Len(metadata.lines) :
        TrimSpace(metadata.lines[i]) # <<>> /\ Len(SplitN2(metadata.lines[i])) = 2 }

\* WriteSource is about to process a manifest entry
AtEntry == wpc = "loop" /\ idx \in EntryLines

FileAt(fs, path) == IF path \in DOMAIN fs THEN fs[path] ELSE "absent"

\* C1: when the bytes of an entry do not verify, the run aborts with the
\* working-tree file at the entry's path exactly as it was before the entry
\* was processed (not created, not truncated)
C1_NoWriteOnMismatch ==
    [][ (AtEntry /\ fatal' = ChecksumMismatch) =>
            FileAt(tree', EntryPath(idx)) = FileAt(tree, EntryPath(idx)) ]_vars

\* C2: every entry of BlobCache holds bytes that verify against its key, in
\* every state of the run, the aborted ones included
C2_CacheHoldsVerifiedBytes ==
    \A h \in DOMAIN BlobCache : CompareHash(BlobCache[h], h) # Nil

\* C3: processing an entry whose hash is in BlobCache makes no blob-store
\* read and no HTTP request, leaves the cache alone, and the bytes written
\* are the cached ones
C3_CacheHitNoExternalCall ==
    [][ (AtEntry /\ EntryHash(idx) \in DOMAIN BlobCache) =>
            /\ calls' = calls
            /\ BlobCache' = BlobCache
            /\ (wpc' \in {"loop", "returned"} =>
                  FileAt(tree', EntryPath(idx)) = BlobCache[EntryHash(idx)]) ]_vars

\* a completed WriteSource that served an entry from the cache alone
C3_Witness ==
    /\ wpc = "returned"
    /\ calls = <<>>
    /\ Len(SourcesToIgnore) >= 1
    /\ 1 \in EntryLines
    /\ FileAt(tree, EntryPath(1)) = BlobCache[EntryHash(1)]

\* C4: with the no-download flag set no BlobStorage.Read call occurs, and
\* the bytes of every cache miss come from the origin
C4_NoStoreReadWhenNoDownload ==
    NoStorageDownload => \A i \in DOMAIN calls : calls[i].tier # "store"

\* the external calls made for line j
CallsFor(j, tier) == { i \in DOMAIN calls : calls[i].line = j /\ calls[i].tier = tier }

\* the bytes the winning tier returned for line j
TierBytes(j) ==
    IF CallsFor(j, "http") # {}
    THEN calls[CHOOSE i \in CallsFor(j, "http") : TRUE].resp
    ELSE IF CallsFor(j, "store") # {}
    THEN calls[CHOOSE i \in CallsFor(j, "store") : TRUE].resp
    ELSE BlobCache[EntryHash(j)]

\* the last entry that names the path of entry j
LastFor(j) == SetMax({ k \in EntryLines : EntryPath(k) = EntryPath(j) })

\* C7: after WriteSource completes, the file at the path of every manifest
\* entry holds the bytes a tier returned for the last entry naming that
\* path, and their digest is that entry's hash
C7_VerifiedBytesWritten ==
    (wpc = "returned" /\ metadata.present) =>
        \A j \in EntryLines :
            /\ EntryPath(j) \in DOMAIN tree
            /\ tree[EntryPath(j)] = TierBytes(LastFor(j))
            /\ tree[EntryPath(j)] \in Bytes
            /\ Digest(HashKind(EntryHash(LastFor(j))), tree[EntryPath(j)])
                 = EntryHash(LastFor(j))

\* two entries with different hashes named one path, the second one's bytes
\* came from the origin although the store had returned bytes
C7_Witness ==
    /\ wpc = "returned"
    /\ NoStorageDownload
    /\ EntryLines = {1, 2}
    /\ EntryPath(1) = EntryPath(2)
    /\ EntryHash(1) # EntryHash(2)
    /\ CallsFor(2, "http") # {}
    /\ \E i \in CallsFor(2, "store") : calls[i].resp \in Bytes \ {TierBytes(2)}
    /\ tree[EntryPath(2)] = TierBytes(2)

PreOpenFailures ==
    { "could not get upstream remote", "could not fetch upstream",
      "could not checkout source from git", "could not add Worktree" }

\* C8: with no metadata file in the checked-out tree WriteSource returns
\* without a fatal abort once fetch, checkout and staging succeeded; it
\* appends no IgnoredSource, adds no BlobCache entry and makes no blob-store
\* or HTTP call
C8_NoMetadataReturns ==
    /\ [](~metadata.present => (SourcesToIgnore = <<>> /\ calls = <<>>))
    /\ [][ (wpc = "start" /\ ~metadata.present) =>
              /\ BlobCache' = BlobCache
              /\ wpc' # "loop"
              /\ (wpc' = "fatal" => fatal' \in PreOpenFailures) ]_vars

\* WriteSource returned on a tree without a metadata file
C8_Witness ==
    /\ wpc = "returned"
    /\ ~metadata.present
    /\ tree = commitTree
    /\ SourcesToIgnore = <<>>
    /\ calls = <<>>

ListedPaths == { SourcesToIgnore[i].Name : i \in DOMAIN SourcesToIgnore }

\* C9: PostProcess changes no path outside the IgnoredSource list, adds no
\* path, and a listed path that is already absent is passed over without an
\* error
C9_PostProcessFrame ==
    [][ (wpc \in {"returned", "post"}) =>
            /\ DOMAIN tree' \subseteq DOMAIN tree
            /\ \A q \in DOMAIN tree :
                 q \notin ListedPaths => (q \in DOMAIN tree' /\ tree'[q] = tree[q])
            /\ \A q \in DOMAIN tree' : tree'[q] = tree[q]
            /\ (postIdx <= Len(SourcesToIgnore)
                  /\ SourcesToIgnore[postIdx].Name \notin DOMAIN tree) =>
                 (wpc' = "post" /\ postIdx' = postIdx + 1 /\ tree' = tree) ]_vars

\* PostProcess finished over a list naming one path twice; the files that
\* are not listed are still there
C9_Witness ==
    /\ wpc = "postdone"
    /\ Len(SourcesToIgnore) = 2
    /\ SourcesToIgnore[1].Name = SourcesToIgnore[2].Name
    /\ SourcesToIgnore[1].Name \notin DOMAIN tree
    /\ SpecPath \in DOMAIN tree
    /\ MetadataPath \in DOMAIN tree

\* a line of the form <contentHash><whitespace><relativePath>
IsRecord(line) ==
    /\ Len(line) >= 3
    /\ line[1] \notin Whitespace
    /\ line[Len(line)] \notin Whitespace
    /\ \A i \in 2..(Len(line) - 1) : line[i] \in Whitespace

\* the external calls a step adds
NewCalls == SubSeq(calls', Len(calls) + 1, Len(calls'))

\* C13: a line <contentHash><whitespace><relativePath>, whatever the
\* whitespace, is parsed without a crash into the entry made of its two
\* fields; a blank line produces no entry
C13_AnyWhitespaceParsed ==
    [][ wpc = "loop" =>
          LET line == metadata.lines[idx] IN
          /\ IsRecord(line) =>
               /\ wpc' # "panic"
               /\ \A i \in DOMAIN NewCalls : NewCalls[i].hash = << line[1] >>
               /\ Len(SourcesToIgnore') > Len(SourcesToIgnore) =>
                    SourcesToIgnore'[Len(SourcesToIgnore')].Name = << line[Len(line)] >>
          /\ TrimSpace(line) = <<>> =>
               /\ wpc' \in {"loop", "returned"}
               /\ UNCHANGED << tree, BlobCache, SourcesToIgnore, calls >> ]_vars

\* C15: once BlobCache[h] is set no later step changes or removes it
C15_CacheWriteOnce ==
    [][ \A h \in DOMAIN BlobCache :
          h \in DOMAIN BlobCache' /\ BlobCache'[h] = BlobCache[h] ]_vars

\* a hash fetched for the first line was listed again on the second line and
\* the run completed without a further call
C15_Witness ==
    /\ wpc = "returned"
    /\ EntryLines = {1, 2}
    /\ EntryHash(1) = EntryHash(2)
    /\ CallsFor(1, "store") # {}
    /\ CallsFor(2, "store") = {}
    /\ CallsFor(2, "http") = {}
    /\ EntryHash(1) \in DOMAIN BlobCache

\* C16: an HTTP request is made for an entry only when the cache has no
\* entry for its hash and the store did not supply the bytes (it returned
\* nothing, or the no-download flag is set), and after the store was asked;
\* when the store returns bytes and the flag is unset no HTTP request is made
C16_TierOrder ==
    [][ AtEntry =>
          /\ \A i \in DOMAIN NewCalls :
               NewCalls[i].tier = "http" =>
                  /\ EntryHash(idx) \notin DOMAIN BlobCache
                  /\ NewCalls[i].hash = EntryHash(idx)
                  /\ \A k \in DOMAIN NewCalls :
                       NewCalls[k].tier = "store" =>
                          /\ k < i
                          /\ (NewCalls[k].resp = Nil \/ NoStorageDownload)
          /\ \A k \in DOMAIN NewCalls :
               (NewCalls[k].tier = "store" /\ NewCalls[k].resp # Nil /\ ~NoStorageDownload)
               => \A i \in DOMAIN NewCalls : NewCalls[i].tier # "http" ]_vars

\* the store returned nothing for an entry and the origin supplied the bytes;
\* for another entry the store supplied them and the origin was not asked
C16_Witness ==
    /\ wpc = "returned"
    /\ ~NoStorageDownload
    /\ \E i \in CallsFor(1, "store") : calls[i].resp = Nil
    /\ CallsFor(1, "http") # {}
    /\ \E i \in CallsFor(2, "store") : calls[i].resp # Nil
    /\ CallsFor(2, "http") = {}

\* C17: a fatal error halts the run at the failing step: the line index does
\* not advance in that step, and no later step creates or writes a file,
\* adds a BlobCache entry, appends an IgnoredSource or makes a store or HTTP
\* call
C17_FatalHalts ==
    /\ [][ fatal # Nil =>
             UNCHANGED << wpc, fatal, idx, tree, BlobCache, SourcesToIgnore, calls,
                          postIdx >> ]_vars
    /\ [][ (fatal = Nil /\ fatal' # Nil) => (wpc' = "fatal" /\ idx' = idx) ]_vars

\* the run died on a checksum mismatch at the first of two entries
C17_Witness ==
    /\ wpc = "fatal"
    /\ fatal = ChecksumMismatch
    /\ idx = 1
    /\ EntryLines = {1, 2}
    /\ SourcesToIgnore = <<>>

\* the entry lines in manifest order
RECURSIVE EntrySeq(_)
EntrySeq(n) ==
    IF n = 0 THEN <<>>
    ELSE IF n \in EntryLines THEN Append(EntrySeq(n - 1), n) ELSE EntrySeq(n - 1)

\* C18: after a WriteSource that completes, SourcesToIgnore holds exactly one
\* record per non-blank manifest line, in manifest order, with the line's
\* path and the hash kind of its hash; in every state each record belongs to
\* a line whose bytes verified
C18_OneRecordPerLine ==
    /\ (wpc = "returned" /\ metadata.present) =>
          LET e == EntrySeq(Len(metadata.lines)) IN
          /\ Len(SourcesToIgnore) = Len(e)
          /\ Len(e) = Cardinality({ i \in DOMAIN metadata.lines :
                                      TrimSpace(metadata.lines[i]) # <<>> })
          /\ \A k \in DOMAIN e :
               /\ SourcesToIgnore[k].Name = EntryPath(e[k])
               /\ SourcesToIgnore[k].HashFunction = HashKind(EntryHash(e[k]))
    /\ LET e == EntrySeq(Len(metadata.lines)) IN
       /\ Len(SourcesToIgnore) <= Len(e)
       /\ \A k \in DOMAIN SourcesToIgnore :
            /\ SourcesToIgnore[k].Name = EntryPath(e[k])
            /\ EntryHash(e[k]) \in DOMAIN BlobCache
            /\ CompareHash(BlobCache[EntryHash(e[k])], EntryHash(e[k]))
                 = SourcesToIgnore[k].HashFunction

\* two lines naming one path with hashes of different kinds gave two records
C18_Witness ==
    /\ wpc = "returned"
    /\ Len(SourcesToIgnore) = 2
    /\ SourcesToIgnore[1].Name = SourcesToIgnore[2].Name
    /\ SourcesToIgnore[1].HashFunction = "sha1"
    /\ SourcesToIgnore[2].HashFunction = "sha256"

\* C19: after PostProcess completes no listed path is in the working tree,
\* so the tree holds none of the manifest's paths
C19_ListedPathsRemoved ==
    wpc = "postdone" =>
        /\ \A q \in ListedPaths : q \notin DOMAIN tree
        /\ metadata.present => \A j \in EntryLines : EntryPath(j) \notin DOMAIN tree

\* a placeholder of the commit and a file created by WriteSource were both
\* removed
C19_Witness ==
    /\ wpc = "postdone"
    /\ << "pa" >> \in DOMAIN commitTree
    /\ ListedPaths = { << "pa" >>, << "pb" >> }
    /\ DOMAIN tree = { SpecPath, MetadataPath }

\* C20: the calls for a hash are all made at the first line that lists it,
\* at most one per tier, and every occurrence of the hash got the same bytes
C20_OneFetchPerHash ==
    /\ \A i \in DOMAIN calls :
         /\ calls[i].line \in EntryLines
         /\ EntryHash(calls[i].line) = calls[i].hash
         /\ \A k \in EntryLines : k < calls[i].line => EntryHash(k) # calls[i].hash
         /\ \A j \in DOMAIN calls :
              (j # i /\ calls[j].hash = calls[i].hash) => calls[j].tier # calls[i].tier
    /\ wpc = "returned" =>
         \A j, k \in EntryLines :
            EntryHash(j) = EntryHash(k) =>
               /\ TierBytes(j) = TierBytes(k)
               /\ (j = LastFor(j) /\ k = LastFor(k)) =>
                     tree[EntryPath(j)] = tree[EntryPath(k)]

\* one hash listed for two paths was fetched once and written twice
C20_Witness ==
    /\ wpc = "returned"
    /\ EntryLines = {1, 2}
    /\ EntryHash(1) = EntryHash(2)
    /\ EntryPath(1) # EntryPath(2)
    /\ Len(calls) >= 1
    /\ \A i \in DOMAIN calls : calls[i].line = 1
    /\ tree[EntryPath(1)] = tree[EntryPath(2)]

\* ------------------------------------------------------------ ImportName
\* ImportName returning the branch component of the match
ImportNameGroup2(tagBranch) ==
    IF MatchString(tagBranch)
    THEN Group(FindStringSubmatch(tagBranch), 2)
    ELSE TrimPrefix(tagBranch, RefsHeads)

\* GitMode.ImportName
ImportName(tagBranch) ==
    IF MatchString(tagBranch)
    THEN Group(FindStringSubmatch(tagBranch), 3)
    ELSE TrimPrefix(tagBranch, RefsHeads)

\* how a reference name can begin
NameHeads ==
    { <<>>, RefsHeads, RefsHeadsNoSlash, RefsTags, RefsTags \o Imports,
      RefsHeads \o RefsTags \o Imports }

TailTokens == { "c9s1", ".", "pkgname", "-", "3" }

NameTails == UNION { [1..n -> TailTokens] : n \in 0..MaxTail }

\* the values of md.TagBranch ImportName is applied to
ImportNameInputs == { h \o t : h \in NameHeads, t \in NameTails }

InitImportName ==
    /\ ImportBranchPrefix = << "c" >>
    /\ Version = 8
    /\ NoStorageDownload = FALSE
    /\ IdleResolve
    /\ wpc = "idle"
    /\ fatal = Nil
    /\ TagBranch \in ImportNameInputs
    /\ branchName = <<>>
    /\ commitTree = EmptyMap
    /\ metadata = [present |-> FALSE, lines |-> <<>>]
    /\ idx = 1
    /\ tree = EmptyMap
    /\ BlobCache = EmptyMap
    /\ SourcesToIgnore = <<>>
    /\ calls = <<>>
    /\ postIdx = 1
    /\ ipc = "call"
    /\ importName = <<>>

\* a call of ImportName on md.TagBranch
ImportNameCall ==
    /\ ipc = "call"
    /\ importName' = ImportName(TagBranch)
    /\ ipc' = "done"
    /\ UNCHANGED << pdVars, rVars, wVars >>

NextImportName == ImportNameCall

SpecImportName == InitImportName /\ [][NextImportName]_vars

\* ----------------------------------------------- properties of ImportName
ExampleTag == RefsTags \o Imports \o << "c9s1", ".", "pkgname", "-", "3" >>
ExampleHead == RefsHeads \o << "c9s1" >>

\* t lies between the last separator that a dash follows and the last dash
\* of s
IsPackageComponent(s, t) ==
    \E j, k \in 1..Len(s) :
       /\ j < k
       /\ s[j] = RegexSep
       /\ s[k] = RegexDash
       /\ \A x \in (k + 1)..Len(s) : s[x] # RegexDash
       /\ \A x \in (j + 1)..(k - 1) : s[x] # RegexSep
       /\ t = SubSeq(s, j + 1, k - 1)

\* C12: for a name matching the import-tag pattern ImportName returns the
\* package-name component; for any other name it returns the name without a
\* leading refs/heads/, or the name itself when it has no such prefix; the
\* two examples of the spec give "pkgname" and "c9s1"
C12_ImportName ==
    ipc = "done" =>
        /\ MatchString(TagBranch) => IsPackageComponent(TagBranch, importName)
        /\ (~MatchString(TagBranch) /\ HasPrefix(TagBranch, RefsHeads)) =>
              RefsHeads \o importName = TagBranch
        /\ (~MatchString(TagBranch) /\ ~HasPrefix(TagBranch, RefsHeads)) =>
              importName = TagBranch
        /\ TagBranch = ExampleTag => importName = << "pkgname" >>
        /\ TagBranch = ExampleHead => importName = << "c9s1" >>

\* ImportName has been applied to the import tag of the spec's example
C12_Witness ==
    /\ ipc = "done"
    /\ TagBranch = ExampleTag
    /\ importName = << "pkgname" >>

====
